---- MODULE Spec2Model ----
(***************************************************************************)
(* The plan executor of mcpAI/robotAI.py as a state machine: one process   *)
(* run, from reading the plan file to the process exit.  The browser       *)
(* driver (Playwright) is the environment: every call into it during the   *)
(* acquisition of the session and during a step may return, time out or    *)
(* raise.                                                                  *)
(***************************************************************************)
EXTENDS Integers, Sequences, FiniteSets, TLC

\* ------------------------------------------------------------------ bounds
\* longest plan["steps"] list explored
MaxSteps == 2

\* ------------------------------------------------------------------ values
\* a key that is absent from a JSON object (Python: `"id" not in step`)
Absent == "<absent>"
\* Python None
None == "<None>"

\* ids a plan uses to name captures
Ids == {"a", "b", "goal"}
\* texts the page returns for an extraction; "q" stands for a text that
\* holds a double quote, as in  6" pipe
Texts == {"v", "q"}
HasQuote(t) == t = "q"

\* Python truthiness of a str-or-None value
Truthy(x) == x # None /\ x # Absent /\ x # ""

\* A Python dict of str to str: the sequence of its items in insertion
\* order.  Assigning to a key it holds keeps the key's place.
EmptyDict == << >>
Keys(d) == {d[n].k : n \in 1..Len(d)}
Get(d, key) == d[CHOOSE n \in 1..Len(d) : d[n].k = key].v
\* an assignment that starts the dict over
put_fresh(d, key, val) == <<[k |-> key, v |-> val]>>
\* an assignment that leaves a key it finds as it is
put_once(d, key, val) ==
    IF key \in Keys(d) THEN d ELSE Append(d, [k |-> key, v |-> val])
Put(d, key, val) ==
    IF key \in Keys(d)
    THEN [n \in 1..Len(d) |-> IF d[n].k = key THEN [k |-> key, v |-> val] ELSE d[n]]
    ELSE Append(d, [k |-> key, v |-> val])

\* ------------------------------------------------------------------- steps
\* A step of the plan document: its "tool" key (Absent when the object has
\* none), the step-level "id", args["id"], and whether args holds the key
\* the tool reads (url for navigate, selector for the others).
Step(tool, id, argsId, argsOk) ==
    [tool |-> tool, id |-> id, argsId |-> argsId, argsOk |-> argsOk]

KnownTools == {"navigate", "click", "type", "wait_for", "extract_text"}

StepSet ==
    { Step("navigate", Absent, Absent, TRUE),
      Step("navigate", Absent, Absent, FALSE),
      Step("click", Absent, Absent, TRUE),
      Step("extract_text", "a", Absent, TRUE),
      Step("extract_text", Absent, "b", TRUE),
      Step("extract_text", "a", "b", TRUE),
      Step("extract_text", "", "b", TRUE),
      Step("extract_text", "goal", Absent, TRUE),
      Step("extract_text", Absent, Absent, TRUE),
      Step("scroll", Absent, Absent, TRUE),
      Step(Absent, Absent, Absent, TRUE) }

RECURSIVE SeqsUpTo(_, _)
SeqsUpTo(S, n) ==
    IF n = 0 THEN {<< >>}
    ELSE LET shorter == SeqsUpTo(S, n - 1)
         IN  shorter \cup {Append(s, x) : s \in {t \in shorter : Len(t) = n - 1}, x \in S}

\* --------------------------------------------------------------- templates
\* plan["final_report"].  A template is known by what str.format and
\* json.loads make of it: whether its format syntax is sound, the ids it
\* references as {id}, and the keys of the JSON object it renders to.
\*   TplCanon   {{"goal": "g", "extracted": {{"a": "{a}"}}}}
\*   TplFlat    {{"a": "{a}"}}
\*   TplStatic  {{"goal": "g", "extracted": {{}}}}
\*   TplError   {{"goal": "g", "extracted": {{}}, "error": "none"}}
\*   TplBroken  {"a": "{a}"}                (single braces: format raises)
\*   TplBlank   a string of spaces
\*   TplNone    the key is absent (or not a string)
Template(isStr, blank, fmtOk, refs, keys) ==
    [isStr |-> isStr, blank |-> blank, fmtOk |-> fmtOk, refs |-> refs, keys |-> keys]

TplNone == Template(FALSE, FALSE, FALSE, {}, {})
TplBlank == Template(TRUE, TRUE, FALSE, {}, {})
TplBroken == Template(TRUE, FALSE, FALSE, {"a"}, {})
TplCanon == Template(TRUE, FALSE, TRUE, {"a"}, {"goal", "extracted"})
TplFlat == Template(TRUE, FALSE, TRUE, {"a"}, {"a"})
TplStatic == Template(TRUE, FALSE, TRUE, {}, {"goal", "extracted"})
TplError == Template(TRUE, FALSE, TRUE, {}, {"goal", "extracted", "error"})

Templates == {TplNone, TplBlank, TplBroken, TplCanon, TplFlat, TplStatic, TplError}

\* ------------------------------------------------------------- plan files
\* What is at plan_path: no file, an empty (or all-blank) file, bytes that
\* are not UTF-8, text that is not JSON, JSON without a "steps" list, or a
\* plan document.
FileKinds == {"missing", "empty", "undecodable", "badjson", "nosteps", "ok"}

Goals == {"g", Absent}

PlanFile(kind, goal, steps, final_report) ==
    [kind |-> kind, goal |-> goal, steps |-> steps, final_report |-> final_report]

PlanFiles ==
    {PlanFile(k, Absent, << >>, TplNone) : k \in FileKinds \ {"ok"}}
    \cup {PlanFile("ok", g, s, t) : g \in Goals, s \in SeqsUpTo(StepSet, MaxSteps), t \in Templates}

\* ------------------------------------------------------------------- state
VARIABLES
    file,           \* what is at plan_path
    pc,             \* where the process is
    i,              \* the step the loop of execute_plan is at (1-indexed)
    extracted,      \* execute_plan's `extracted`
    had_error,      \* execute_plan's `had_error`
    error_message,  \* execute_plan's `error_message`
    exc,            \* the exception that is propagating, or None
    stdout,         \* the lines written to standard output (print and the log handler)
    stderr,         \* the lines written to the error stream
    exitCode,       \* the exit status of the process, -1 while it runs
    browser,        \* "none", "open" or "closed"
    context,        \* "none", "open" or "closed"
    launches,       \* calls of chromium.launch that returned a browser
    closes,         \* calls of browser.close
    interpreted     \* what run_step did for each step handed to it, in order

\* the state of one call of _summarize_snapshot (llmPlan.py)
VARIABLES
    snapshot,       \* its argument `snapshot`: the root and the objects it reaches
    max_nodes,      \* its argument `max_nodes`
    nodes,          \* its list `nodes`
    frames,         \* the calls of collect that are active, innermost last
    sumPc,          \* "idle", "start", "run", "returned" or "raised"
    sumResult       \* what it returned, or the exception that left it

execVars == <<file, pc, i, extracted, had_error, error_message, exc, stdout, stderr,
              exitCode, browser, context, launches, closes, interpreted>>
\* the state of one call of generate_plan (llmPlan.py) up to the planning step
VARIABLES
    api_key,        \* config.OPENAI_API_KEY is set
    remote,         \* how the remote source answers: the stage that fails, or its payload
    goal_has_url,   \* the goal text holds a URL
    start_url,      \* START_URL of the environment
    page,           \* how the fallback's page-inspection session goes
    genPc,          \* "idle", "start", "remote", "choose", "plan", "called" or "raised"
    mcp_snapshot,   \* generate_plan's `snapshot`
    source_tag,     \* generate_plan's `source_tag`
    snapshot_block, \* generate_plan's `snapshot_block`
    attempts,       \* the sources that were tried, in order
    inspection,     \* the driver and the browser of the fallback's own session
    plan_calls      \* the contexts the planning step was invoked with

\* the state of the calls of _normalize (robotAI.py) on one selector
VARIABLES
    selector,       \* the selector of the step: how it is built, and its text
    norm_outs,      \* what _normalize returned, applied to the selector and
                    \* then to what it returned
    norm_prints     \* the lines the calls printed

\* the state of one call of the /launch handler (app.py)
VARIABLES
    environment,    \* config.ENVIRONMENT, which picks the format of the log lines
    gen_fails,      \* generate_plan raises for this instruction
    hPc,            \* "idle", "start", "runner" or "responded"
    failure,        \* what went wrong for the request, "none" while nothing has
    response        \* what the handler answers: the status and the body

\* the state of the server processes that share one working directory
VARIABLES
    plan_json,      \* the request whose plan the file plan.json holds, 0 for none
    reqs            \* for each request: its worker, where it is, the plan its runner loaded

sumVars == <<snapshot, max_nodes, nodes, frames, sumPc, sumResult>>
svcVars == <<environment, gen_fails, hPc, failure, response>>
raceVars == <<plan_json, reqs>>
normVars == <<selector, norm_outs, norm_prints>>
genVars == <<api_key, remote, goal_has_url, start_url, page, genPc, mcp_snapshot,
             source_tag, snapshot_block, attempts, inspection, plan_calls>>
\* the state of the planner's functions and of the calling service, which the
\* executor never touches
plannerVars == <<sumVars, genVars, normVars, svcVars, raceVars>>
vars == <<execVars, plannerVars>>

\* a line of output: its kind and what it carries
Line(kind, x) == [k |-> kind, x |-> x]
\* a record the logging handler writes (to sys.stdout, logging_config.py)
Log(msg) == Line("log", msg)

\* --------------------------------------------------------- load_plan_or_die
\* load_plan_or_die without the check of line 46: a document without a
\* "steps" list is returned as a plan
load_plan_unchecked(f) ==
    CASE f.kind = "missing" -> "exit2"
      [] f.kind = "undecodable" -> "raise"
      [] f.kind = "empty" -> "exit2"
      [] f.kind = "badjson" -> "exit2"
      [] OTHER -> "ok"

\* "exit2": sys.exit(2); "raise": an exception escapes; "ok": the plan is returned
load_plan_or_die(f) ==
    CASE f.kind = "missing" -> "exit2"
      [] f.kind = "undecodable" -> "raise"
      [] f.kind = "empty" -> "exit2"
      [] f.kind = "badjson" -> "exit2"
      [] f.kind = "nosteps" -> "exit2"
      [] OTHER -> "ok"

LoadPlan ==
    /\ pc = "load"
    /\ LET r == load_plan_or_die(file) IN
         CASE r = "exit2" ->
                /\ stdout' = Append(stdout, Log("plan load error"))
                /\ stderr' = Append(stderr, Line("diagnostic", file.kind))
                /\ exitCode' = 2
                /\ pc' = "done"
                /\ exc' = exc
           [] r = "raise" ->
                /\ exc' = "UnicodeDecodeError"
                /\ pc' = "exit"
                /\ UNCHANGED <<stdout, stderr, exitCode>>
           [] OTHER ->
                /\ stdout' = Append(stdout, Log("Plan loaded successfully"))
                /\ pc' = "launch"
                /\ UNCHANGED <<stderr, exitCode, exc>>
    /\ UNCHANGED <<file, i, extracted, had_error, error_message, browser, context,
                   launches, closes, interpreted>>
    /\ UNCHANGED plannerVars

\* ------------------------------------------------------ session acquisition
\* execute_plan, lines 208-214: launch, new_context, new_page, then the
\* three locals.  None of it is inside the try.
Launch ==
    /\ pc = "launch"
    /\ stdout' = Append(stdout, Log("Starting plan execution"))
    /\ browser' = "open"
    /\ context' = "open"
    /\ launches' = launches + 1
    /\ extracted' = EmptyDict
    /\ had_error' = FALSE
    /\ error_message' = None
    /\ pc' = "goal"
    /\ UNCHANGED <<file, i, exc, stderr, exitCode, closes, interpreted>>
    /\ UNCHANGED plannerVars

\* The driver raises in one of the three calls; the exception leaves
\* execute_plan at once, since no handler or finally encloses these lines.
AcquireStages == {"launch", "new_context", "new_page"}

LaunchFault ==
    /\ pc = "launch"
    /\ \E stage \in AcquireStages :
         /\ browser' = IF stage = "launch" THEN "none" ELSE "open"
         /\ launches' = IF stage = "launch" THEN launches ELSE launches + 1
         /\ context' = IF stage = "new_page" THEN "open" ELSE "none"
    /\ stdout' = Append(stdout, Log("Starting plan execution"))
    /\ exc' = "Error"
    /\ pc' = "exit"
    /\ UNCHANGED <<file, i, extracted, had_error, error_message, stderr, exitCode,
                   closes, interpreted>>
    /\ UNCHANGED plannerVars

\* execute_plan, lines 217-219
PrintGoal ==
    /\ pc = "goal"
    /\ stdout' = stdout \o <<Log("Goal"), Line("goal", file.goal)>>
    /\ i' = 1
    /\ pc' = "loop"
    /\ UNCHANGED <<file, extracted, had_error, error_message, exc, stderr, exitCode,
                   browser, context, launches, closes, interpreted>>
    /\ UNCHANGED plannerVars

\* ---------------------------------------------------------------- run_step
\* What the driver does when a step calls it: it returns (with the text of
\* the element, for an extraction), the wait runs out, or it raises another
\* error, whose message may be empty.
Drv(kind, text) == [kind |-> kind, text |-> text]
DriverBehaviours ==
    {Drv("ok", t) : t \in Texts}
    \cup {Drv("timeout", "waiting"), Drv("error", "boom"), Drv("error", "")}
NoCall == Drv("ok", None)

\* what a call of run_step comes to: it returns `result`, or raises
Outcome(raised, msg, result, skipped) ==
    [raised |-> raised, msg |-> msg, result |-> result, skipped |-> skipped]

\* run_step with a final `raise` in place of the skip of lines 194-196
run_step_strict(step, d) ==
    IF step.tool \in KnownTools
    THEN IF ~step.argsOk
         THEN [raised |-> "Exception",
               msg |-> IF step.tool = "navigate" THEN "'url'" ELSE "'selector'",
               result |-> None, skipped |-> FALSE]
         ELSE CASE d.kind = "timeout" ->
                     [raised |-> "TimeoutError", msg |-> d.text, result |-> None, skipped |-> FALSE]
                [] d.kind = "error" ->
                     [raised |-> "Exception", msg |-> d.text, result |-> None, skipped |-> FALSE]
                [] OTHER ->
                     [raised |-> "none", msg |-> "",
                      result |-> IF step.tool = "extract_text" THEN d.text ELSE None,
                      skipped |-> FALSE]
    ELSE [raised |-> "Exception", msg |-> "unknown tool", result |-> None, skipped |-> FALSE]

\* run_step reaches the driver only for a tool it knows, and after it has
\* read args["url"] or args["selector"]
CallsDriver(step) == step.tool \in KnownTools /\ step.argsOk

run_step(step, d) ==
    IF step.tool \in KnownTools
    THEN IF ~step.argsOk
         THEN Outcome("Exception",
                      IF step.tool = "navigate" THEN "'url'" ELSE "'selector'",
                      None, FALSE)
         ELSE CASE d.kind = "timeout" -> Outcome("TimeoutError", d.text, None, FALSE)
                [] d.kind = "error" -> Outcome("Exception", d.text, None, FALSE)
                [] OTHER -> Outcome("none", "",
                                    IF step.tool = "extract_text" THEN d.text ELSE None,
                                    FALSE)
    ELSE Outcome("none", "", None, TRUE)

\* _get_step_id that names an id of its own when the step has none
get_step_id_default(step) ==
    IF step.id # Absent THEN step.id
    ELSE IF step.argsId # Absent THEN step.argsId
    ELSE "value"

\* _get_step_id: the step-level id when the key is there, else args["id"]
get_step_id(step) ==
    IF step.id # Absent THEN step.id
    ELSE IF step.argsId # Absent THEN step.argsId
    ELSE None

\* ---------------------------------------------------- the loop of execute_plan
Steps == file.steps

\* line 221, the iterator is exhausted: on to the reporting
LoopEnd ==
    /\ pc = "loop"
    /\ i > Len(Steps)
    /\ pc' = "report"
    /\ UNCHANGED <<file, i, extracted, had_error, error_message, exc, stdout, stderr,
                   exitCode, browser, context, launches, closes, interpreted>>
    /\ UNCHANGED plannerVars

\* lines 221-224: step['tool'] is read for the progress line, outside the
\* inner try; a step without the key raises KeyError, which leaves the loop
\* and the outer try (to its finally)
StepHeader ==
    /\ pc = "loop"
    /\ i <= Len(Steps)
    /\ IF Steps[i].tool = Absent
       THEN /\ exc' = "KeyError"
            /\ pc' = "finally"
            /\ stdout' = stdout
       ELSE /\ stdout' = stdout \o <<Log("Step"), Line("step", i)>>
            /\ pc' = "run"
            /\ exc' = exc
    /\ UNCHANGED <<file, i, extracted, had_error, error_message, stderr, exitCode,
                   browser, context, launches, closes, interpreted>>
    /\ UNCHANGED plannerVars

\* a handler that ends without `break`: the loop goes on to the next step
after_fault_continue(n) == [pc |-> "loop", i |-> n + 1]

\* where the loop goes after the handler of a step fault: `break`
after_fault(n) == [pc |-> "report", i |-> n]

\* the value stored for a capture, line 231
captured_value(result) == IF result = None THEN "" ELSE result

\* error_message as the two handlers set it, lines 236 and 242
fault_message(r) == IF r.raised = "TimeoutError" THEN "Timeout: " \o r.msg ELSE r.msg

\* lines 226-245: run_step, the capture, and the two handlers
RunStep ==
    /\ pc = "run"
    /\ \E d \in (IF CallsDriver(Steps[i]) THEN DriverBehaviours ELSE {NoCall}) :
         LET step == Steps[i]
             r == run_step(step, d)
             step_id == get_step_id(step)
             skip == IF r.skipped THEN <<Log("Skipping unknown tool"), Line("skipped", i)>>
                     ELSE << >>
         IN  /\ interpreted' = Append(interpreted, [i |-> i, raised |-> r.raised, result |-> r.result])
             /\ IF r.raised = "none"
                THEN /\ IF step.tool = "extract_text" /\ Truthy(step_id)
                        THEN /\ extracted' = Put(extracted, step_id, captured_value(r.result))
                             /\ stdout' = stdout \o skip
                                    \o <<Log("Captured"), Line("captured", step_id)>>
                        ELSE /\ extracted' = extracted
                             /\ stdout' = stdout \o skip
                     /\ i' = i + 1
                     /\ pc' = "loop"
                     /\ UNCHANGED <<had_error, error_message>>
                ELSE /\ had_error' = TRUE
                     /\ error_message' = fault_message(r)
                     /\ stdout' = stdout \o <<Log("Step failed"), Line("error", fault_message(r))>>
                     /\ i' = after_fault(i).i
                     /\ pc' = after_fault(i).pc
                     /\ extracted' = extracted
    /\ UNCHANGED <<file, exc, stderr, exitCode, browser, context, launches, closes>>
    /\ UNCHANGED plannerVars

\* --------------------------------------------------------------- reporting
\* final_report.format(**extracted) followed by json.loads: it succeeds
\* when the format syntax is sound, every referenced id was captured, and
\* no substituted text breaks the JSON string it lands in
renders(tpl, e) ==
    /\ tpl.fmtOk
    /\ tpl.refs \subseteq Keys(e)
    /\ \A r \in tpl.refs : ~HasQuote(Get(e, r))

\* a report object: where it comes from, the keys it has and their values
Report(src, keys, goal, ext, err) ==
    [src |-> src, keys |-> keys, goal |-> goal, extracted |-> ext, error |-> err]

\* the object a template renders to
rendered(tpl, e) ==
    Report("template", tpl.keys,
           IF "goal" \in tpl.keys THEN "g" ELSE Absent,
           IF "extracted" \in tpl.keys
              THEN SelectSeq(e, LAMBDA item : item.k \in tpl.refs) ELSE Absent,
           IF "error" \in tpl.keys THEN "none" ELSE Absent)

\* the condition of line 273 without `not extracted`
with_error_always(had, msg, e) == had /\ Truthy(msg)

\* lines 272-274: the canonical payload
with_error(had, msg, e) == had /\ Truthy(msg) /\ e = EmptyDict

payload(goal, e, had, msg) ==
    Report("canonical",
           {"goal", "extracted"} \cup (IF with_error(had, msg, e) THEN {"error"} ELSE {}),
           IF goal = Absent THEN None ELSE goal,
           e,
           IF with_error(had, msg, e) THEN msg ELSE Absent)

\* lines 249-253: the block of captured values
value_lines(e) ==
    IF e = EmptyDict THEN << >>
    ELSE <<Log("Extracted values"), Line("values_header", Len(e))>>
         \o [n \in 1..Len(e) |-> Line("value", e[n])]

\* the reporting without the fallback of lines 269-275 after a template
\* that failed to render
report_lines_no_fallback(tpl, goal, e, had, msg) ==
    IF tpl.isStr /\ ~tpl.blank
    THEN IF renders(tpl, e)
         THEN <<Line("report", rendered(tpl, e))>>
         ELSE <<Log("Failed to format final_report")>>
    ELSE <<Line("report", payload(goal, e, had, msg))>>

\* lines 255-275: the template when it is a non-blank string that renders,
\* else the canonical payload
report_lines(tpl, goal, e, had, msg) ==
    IF tpl.isStr /\ ~tpl.blank
    THEN IF renders(tpl, e)
         THEN <<Line("report", rendered(tpl, e))>>
         ELSE <<Log("Failed to format final_report"),
                Line("report", payload(goal, e, had, msg))>>
    ELSE <<Line("report", payload(goal, e, had, msg))>>

\* the report printed ahead of the block of captured values
reporting_report_first(tpl, goal, e, had, msg) ==
    report_lines(tpl, goal, e, had, msg) \o value_lines(e)

\* lines 247-275, in the order the code prints
reporting(tpl, goal, e, had, msg) ==
    value_lines(e) \o report_lines(tpl, goal, e, had, msg)

EmitReport ==
    /\ pc = "report"
    /\ stdout' = stdout \o reporting(file.final_report, file.goal, extracted,
                                     had_error, error_message)
    /\ pc' = "finally"
    /\ UNCHANGED <<file, i, extracted, had_error, error_message, exc, stderr, exitCode,
                   browser, context, launches, closes, interpreted>>
    /\ UNCHANGED plannerVars

\* ------------------------------------------------------------------ cleanup
\* lines 277-281, the finally of the outer try
cleanup_lines == <<Log("Closing browser"), Line("closing", "Closing browser...")>>

CloseBrowser ==
    /\ pc = "finally"
    /\ stdout' = stdout \o cleanup_lines
    /\ context' = "closed"
    /\ browser' = "closed"
    /\ closes' = closes + 1
    /\ pc' = "exit"
    /\ UNCHANGED <<file, i, extracted, had_error, error_message, exc, stderr, exitCode,
                   launches, interpreted>>
    /\ UNCHANGED plannerVars

\* ------------------------------------------------------------ process exit
\* __main__: execute_plan returned, or an exception left it; the
\* interpreter prints the traceback of an uncaught exception and exits 1
exit_status(e) == IF e = None THEN 0 ELSE 1

Exit ==
    /\ pc = "exit"
    /\ exitCode' = exit_status(exc)
    /\ stderr' = IF exc = None THEN stderr ELSE Append(stderr, Line("traceback", exc))
    /\ pc' = "done"
    /\ UNCHANGED <<file, i, extracted, had_error, error_message, exc, stdout,
                   browser, context, launches, closes, interpreted>>
    /\ UNCHANGED plannerVars

\* ------------------------------------------------------------ specification
\* no call of _summarize_snapshot is in progress
SumIdle ==
    /\ snapshot = [root |-> [t |-> "none", items |-> << >>], heap |-> << >>]
    /\ max_nodes = 0
    /\ nodes = << >>
    /\ frames = << >>
    /\ sumPc = "idle"
    /\ sumResult = [k |-> "none"]

\* no call of generate_plan is in progress
GenIdle ==
    /\ api_key = FALSE
    /\ remote = [stage |-> "none"]
    /\ goal_has_url = FALSE
    /\ start_url = None
    /\ page = "none"
    /\ genPc = "idle"
    /\ mcp_snapshot = [k |-> "none"]
    /\ source_tag = None
    /\ snapshot_block = [k |-> "none"]
    /\ attempts = << >>
    /\ inspection = [driver |-> "none", browser |-> "none"]
    /\ plan_calls = << >>

\* no selector is being normalized
NormIdle ==
    /\ selector = [text |-> << >>]
    /\ norm_outs = << >>
    /\ norm_prints = << >>

\* no request is being handled
SvcIdle ==
    /\ environment = "development"
    /\ gen_fails = FALSE
    /\ hPc = "idle"
    /\ failure = "none"
    /\ response = [status |-> 0]
RaceIdle ==
    /\ plan_json = 0
    /\ reqs = << >>

PlannerIdle == SumIdle /\ GenIdle /\ NormIdle /\ SvcIdle /\ RaceIdle

ExecInit ==
    /\ file \in PlanFiles
    /\ pc = "load"
    /\ i = 0
    /\ extracted = EmptyDict
    /\ had_error = FALSE
    /\ error_message = None
    /\ exc = None
    /\ stdout = << >>
    /\ stderr = << >>
    /\ exitCode = -1
    /\ browser = "none"
    /\ context = "none"
    /\ launches = 0
    /\ closes = 0
    /\ interpreted = << >>

Init == ExecInit /\ PlannerIdle

Next ==
    \/ LoadPlan
    \/ Launch
    \/ LaunchFault
    \/ PrintGoal
    \/ LoopEnd
    \/ StepHeader
    \/ RunStep
    \/ EmitReport
    \/ CloseBrowser
    \/ Exit

Spec == Init /\ [][Next]_vars

\* The run as the interpreter schedules it: one thread, each statement
\* followed by the next, and every call of the driver returns or raises
\* within its timeout (DEFAULT_TIMEOUT on goto and wait_for), so a step that
\* can be taken is taken.
SpecLive == Spec /\ WF_vars(Next)

\* ================================================================== claims
Accepted == file.kind = "ok"
LoadFatal == file.kind \in {"missing", "empty", "badjson", "nosteps"}
Done == pc = "done"

\* the report objects on standard output, in order
Reports == SelectSeq(stdout, LAMBDA l : l.k = "report")
\* the position of the first report line (0 when there is none)
ReportAt ==
    IF \E n \in 1..Len(stdout) : stdout[n].k = "report"
    THEN CHOOSE n \in 1..Len(stdout) :
            /\ stdout[n].k = "report"
            /\ \A m \in 1..(n - 1) : stdout[m].k # "report"
    ELSE 0
TheReport == Reports[1].x

\* the run got past the acquisition of the session, into the try of line 216
EnteredTry == \E n \in 1..Len(stdout) : stdout[n].k = "goal"

\* a step raised a fault (one of the handlers of lines 234-245 ran)
Faulted == had_error
\* the 1-indexed step that raised it
FaultStep == interpreted[Len(interpreted)].i

\* the captures the steps 1..n make: an extract_text step that returned,
\* with a resolvable id, records its text under that id
RECURSIVE CapturesUpTo(_)
CapturesUpTo(n) ==
    IF n = 0 THEN EmptyDict
    ELSE LET prev == CapturesUpTo(n - 1)
             st == Steps[interpreted[n].i]
             id == IF st.id # Absent THEN st.id ELSE st.argsId
         IN  IF /\ interpreted[n].raised = "none"
                /\ st.tool = "extract_text"
                /\ id \notin {Absent, ""}
             THEN Put(prev, id, interpreted[n].result)
             ELSE prev

\* C1: every run of a plan that load_plan_or_die accepts prints exactly one
\* report object on standard output, whichever terminal state it reaches.
\* (Stated for the runs that acquired their session: the claim is about
\* plans, not about a driver that cannot start.)
C1_OneReportPerAcceptedPlan ==
    (Done /\ Accepted /\ EnteredTry) => Len(Reports) = 1

\* C2, as claimed: in a run that emits a report, the report is the last line
\* written to standard output.
C2_ReportIsLastLine ==
    (Done /\ Len(Reports) >= 1) => stdout[Len(stdout)].k = "report"

\* C2, amended: after the report only the cleanup output of the finally
\* block is written (the "Closing browser" log record and the
\* "Closing browser..." line, which ends the output); no step, capture,
\* error or value line follows the report.
C2_OnlyCleanupAfterReport ==
    ReportAt > 0 =>
        /\ \A m \in (ReportAt + 1)..Len(stdout) :
              stdout[m] \in {cleanup_lines[n] : n \in 1..Len(cleanup_lines)}
        /\ Done => /\ Len(stdout) > ReportAt
                   /\ stdout[Len(stdout)].k = "closing"

C2_Witness ==
    /\ Done
    /\ ReportAt > 0
    /\ extracted # EmptyDict
    /\ stdout[Len(stdout)].k = "closing"

\* C3: when step k raises a fault, ExtractedValues after the run, and the
\* `extracted` field of the report, equal exactly the captures made by
\* steps 1..k-1.
C3_FaultKeepsPriorCaptures ==
    (Done /\ Faulted /\ Len(Reports) = 1) =>
        /\ extracted = CapturesUpTo(FaultStep - 1)
        /\ "extracted" \in TheReport.keys
        /\ TheReport.extracted = CapturesUpTo(FaultStep - 1)

\* C4, as claimed (on the runs that print the canonical report of a fault
\* whose message is not empty): the report of a run in which a step raised
\* a fault has a non-empty `error` field, also when earlier steps captured
\* values.
C4_FaultMeansErrorField ==
    (Done /\ Faulted /\ Len(Reports) = 1
          /\ TheReport.src = "canonical" /\ Truthy(error_message)) =>
        /\ "error" \in TheReport.keys
        /\ Truthy(TheReport.error)

\* C4, amended: in a run in which a step raised a fault, the fault is
\* written as an `Error:` line before the report, and the report holds the
\* fault's message in its `error` field exactly when it is the canonical
\* report, no value was captured and the message is not empty; a fault
\* after a capture leaves the report without it.
C4_ErrorFieldIffNothingCaptured ==
    (Done /\ Faulted /\ Len(Reports) = 1) =>
        /\ \E n \in 1..(ReportAt - 1) :
              stdout[n].k = "error" /\ stdout[n].x = error_message
        /\ ("error" \in TheReport.keys /\ TheReport.error = error_message)
              <=> /\ TheReport.src = "canonical"
                  /\ CapturesUpTo(FaultStep - 1) = EmptyDict
                  /\ error_message # ""

C4_Witness ==
    /\ Done
    /\ Faulted
    /\ Len(Reports) = 1
    /\ TheReport.src = "canonical"
    /\ CapturesUpTo(FaultStep - 1) # EmptyDict
    /\ error_message # ""
    /\ "error" \notin TheReport.keys

\* C5: the report carries an `error` field only if a step fault occurred
\* and ExtractedValues was empty when the report was built.
C5_ErrorOnlyIfFaultAndEmpty ==
    \A n \in 1..Len(Reports) :
        "error" \in Reports[n].x.keys => (had_error /\ extracted = EmptyDict)

\* C6: every run whose plan passes loading exits with status 0, whether it
\* ends Completed or Failed.  (Stated for the runs that acquired their
\* session.)
C6_ExitZeroOnceLoaded ==
    (Done /\ Accepted /\ EnteredTry) => exitCode = 0

C8_LaunchedMeansClosedOnce ==
    (Done /\ launches >= 1) => (launches = 1 /\ closes = 1 /\ browser = "closed")

\* C9: steps are interpreted in plan order, each at most once, and no step
\* is interpreted after a step that raised a fault.
C9_InOrderNoneAfterFault ==
    /\ Len(interpreted) <= Len(Steps)
    /\ \A n \in 1..Len(interpreted) :
          /\ interpreted[n].i = n
          /\ interpreted[n].raised # "none" => n = Len(interpreted)

C9_Witness ==
    /\ Done
    /\ Len(Steps) = 2
    /\ Len(interpreted) = 1
    /\ interpreted[1].raised # "none"

\* C10: the report that ends a run always has a `goal` and an `extracted`
\* field, from the template or from the canonical fallback.
C10_ReportHasGoalAndExtracted ==
    \A n \in 1..Len(Reports) : {"goal", "extracted"} \subseteq Reports[n].x.keys

\* the run went through its reporting (lines 247-275)
Reported == pc \in {"finally", "exit", "done"} /\ exc = None /\ EnteredTry

\* C11: a plan with zero steps reaches Completed without interpreting a
\* step, ExtractedValues is empty and the report has no `error` field.
C11_ZeroStepsCleanReport ==
    (Accepted /\ Len(Steps) = 0) =>
        /\ interpreted = << >>
        /\ extracted = EmptyDict
        /\ ~had_error
        /\ \A n \in 1..Len(Reports) : "error" \notin Reports[n].x.keys
        /\ (Done /\ EnteredTry) => (Len(Reports) = 1 /\ exitCode = 0)

\* an extract_text step that names no id, at the step level or under args
NoIdExtract(st) ==
    /\ st.tool = "extract_text"
    /\ st.id \in {Absent, ""}
    /\ st.argsId \in {Absent, ""}

\* C12: an extract_text step without a resolvable id still runs its
\* extraction (run_step is called and, when the driver answers, returns the
\* text) and leaves ExtractedValues unchanged.
C12_NoIdExtractLeavesValues ==
    [][(pc = "run" /\ NoIdExtract(Steps[i])) =>
          /\ extracted' = extracted
          /\ Len(interpreted') = Len(interpreted) + 1
          /\ interpreted'[Len(interpreted')].i = i
          /\ interpreted'[Len(interpreted')].raised = "none"
                => interpreted'[Len(interpreted')].result \in Texts]_vars

C12_Witness ==
    /\ Done
    /\ Len(interpreted) = 2
    /\ NoIdExtract(Steps[2])
    /\ interpreted[2].raised = "none"
    /\ interpreted[2].result \in Texts
    /\ Keys(extracted) = {"a"}

\* a step whose tool is none of the five the interpreter knows
UnknownTool(st) == st.tool # Absent /\ st.tool \notin KnownTools

\* C13: a step with an unknown tool is skipped without a fault: the run
\* does not fail, ExtractedValues and the error message stay as they are,
\* and the loop goes on to the following step.
C13_UnknownToolSkipped ==
    [][(pc = "run" /\ UnknownTool(Steps[i])) =>
          /\ extracted' = extracted
          /\ had_error' = had_error
          /\ error_message' = error_message
          /\ exc' = exc
          /\ interpreted'[Len(interpreted')].raised = "none"
          /\ pc' = "loop"
          /\ i' = i + 1]_vars

C13_Witness ==
    /\ Done
    /\ Len(Steps) = 2
    /\ UnknownTool(Steps[1])
    /\ Len(interpreted) = 2
    /\ interpreted[2].raised = "none"
    /\ ~had_error
    /\ extracted # EmptyDict

\* the plan has a template and it renders with the captured values
TemplateRenders ==
    /\ file.final_report.isStr
    /\ ~file.final_report.blank
    /\ file.final_report.fmtOk
    /\ \A r \in file.final_report.refs :
          \E n \in 1..Len(extracted) : extracted[n].k = r /\ ~HasQuote(extracted[n].v)

\* C14: when the template fails to render, or the plan has none, nothing
\* propagates out of execute_plan and the canonical report is printed; one
\* of the rendered template and the canonical report is printed, never both
\* and never neither.
C14_FallbackWhenTemplateFails ==
    Reported =>
        /\ Len(Reports) = 1
        /\ TheReport.src = (IF TemplateRenders THEN "template" ELSE "canonical")
        /\ Done => exitCode = 0

C14_Witness ==
    /\ Done
    /\ Reported
    /\ file.final_report = TplCanon
    /\ "b" \in Keys(extracted)
    /\ "a" \notin Keys(extracted)
    /\ TheReport.src = "canonical"

\* C24: a run in which a step raised a fault and that reaches its reporting
\* with ExtractedValues empty prints a report with a non-empty `error`,
\* whatever the message of the fault and with or without a template.
C24_FaultReportHasError ==
    (Reported /\ Faulted /\ extracted = EmptyDict) =>
        /\ Len(Reports) = 1
        /\ "error" \in TheReport.keys
        /\ Truthy(TheReport.error)

\* the id the claim resolves a step to: the step-level id when the step
\* carries a non-empty one, else the one under args
NamedId(st) == IF Truthy(st.id) THEN st.id ELSE st.argsId
NamesAnId(st) == Truthy(st.id) \/ Truthy(st.argsId)
\* the step being run returned without a fault
Returned == interpreted'[Len(interpreted')].raised = "none"

\* C25: an extract_text step that succeeds records its value under the
\* step-level id when it has one and else under args.id, and it records a
\* capture whenever one of the two names a non-empty id.
C25_CaptureUnderResolvedId ==
    [][(pc = "run" /\ Steps[i].tool = "extract_text" /\ Returned /\ NamesAnId(Steps[i])) =>
          extracted' = Put(extracted, NamedId(Steps[i]),
                           captured_value(interpreted'[Len(interpreted')].result))]_vars

\* C26: no step of a run takes a key out of ExtractedValues, and a captured
\* value changes only when an extract_text step that returned captures
\* again under the same id.
C26_ValuesNeverRetracted ==
    [][\A key \in Keys(extracted) :
          /\ key \in Keys(extracted')
          /\ Get(extracted', key) # Get(extracted, key) =>
                /\ pc = "run"
                /\ Steps[i].tool = "extract_text"
                /\ get_step_id(Steps[i]) = key
                /\ Returned]_vars

C26_Witness ==
    /\ Done
    /\ Faulted
    /\ Len(interpreted) = 2
    /\ Keys(extracted) = {"a"}
    /\ Len(Reports) = 1

\* the steps interpreted so far that captured under `key`
CapturesOf(key) ==
    {n \in 1..Len(interpreted) :
        /\ interpreted[n].raised = "none"
        /\ Steps[interpreted[n].i].tool = "extract_text"
        /\ get_step_id(Steps[interpreted[n].i]) = key}
LastCaptureOf(key) ==
    CHOOSE n \in CapturesOf(key) : \A m \in CapturesOf(key) : m <= n

\* C27: every value of ExtractedValues is what the last extract_text step
\* that returned under that id gave ("" for no value): a later capture
\* overwrites an earlier one.
C27_LastCaptureWins ==
    \A key \in Keys(extracted) :
        /\ CapturesOf(key) # {}
        /\ Get(extracted, key) = captured_value(interpreted[LastCaptureOf(key)].result)

C27_Witness ==
    /\ Done
    /\ Len(interpreted) = 2
    /\ CapturesOf("a") = {1, 2}
    /\ interpreted[1].result = "v"
    /\ interpreted[2].result = "q"
    /\ Get(extracted, "a") = "q"

\* ====================================================== snapshot summarizer
\* _summarize_snapshot of llmPlan.py: a depth-first walk over a snapshot that
\* keeps a compact record of at most max_nodes nodes.

\* the largest cap a call is given
MaxCap == 2
\* the most objects a snapshot holds
SnapSize == 3
\* the depth of nested calls at which the interpreter raises RecursionError
\* (sys.getrecursionlimit(), scaled down with the snapshots)
RecLimit == 12

\* an entry of a list: an object of the snapshot, or anything that is not an
\* object (a string, a number, null)
Obj(n) == [t |-> "obj", n |-> n]
Leaf == [t |-> "leaf", n |-> 0]

\* the value under `children` or `nodes`: a list, or a truthy value that is
\* not a list; NoKids is the key left out, which reads as the empty list
Kids(items) == [list |-> TRUE, present |-> TRUE, items |-> items]
NoKids == [list |-> TRUE, present |-> FALSE, items |-> << >>]
NotAList == [list |-> FALSE, present |-> TRUE, items |-> << >>]

\* the value under `attributes`: a dict, or anything else
Attrs(d) == [dict |-> TRUE, items |-> d]
NoAttrs == Attrs(EmptyDict)

\* what an object says of itself, apart from its links
Content(role, name, attributes, id, class) ==
    [role |-> role, name |-> name, attributes |-> attributes, id |-> id, class |-> class]
\* {}
Bare == Content(Absent, Absent, NoAttrs, Absent, Absent)
\* a button with a name, one kept attribute, one dropped, one empty, and an id
Named == Content("button", "Add",
                 Attrs(<<[k |-> "data-test", v |-> "add"], [k |-> "href", v |-> "/x"],
                         [k |-> "data-x", v |-> ""]>>),
                 "btn", Absent)
\* no role, no name, only a class
AttrOnly == Content(Absent, Absent, NoAttrs, Absent, "c")
\* an empty role and attributes that are all dropped
Hidden == Content("", Absent, Attrs(<<[k |-> "href", v |-> "/y"]>>), Absent, Absent)
Contents == {Bare, Named, AttrOnly, Hidden}

\* key.startswith("data-")
IsData(key) == key \in {"data-test", "data-x"}

\* an object of the snapshot
Node(content, children, nodes_) ==
    [content |-> content, children |-> children, nodes |-> nodes_]

\* the links of the objects of a snapshot, by shape
Links(children, nodes_) == [children |-> children, nodes |-> nodes_]
\* each object the only child of the one before
Chain(k) ==
    [j \in 1..k |-> Links(IF j < k THEN Kids(<<Obj(j + 1)>>) ELSE NoKids, NoKids)]
\* one object with all the others under `children`, after an entry that is
\* not an object, and the last of them once more under `nodes`
Star(k) ==
    [j \in 1..k |->
        IF j = 1
        THEN Links(Kids(<<Leaf>> \o [m \in 1..(k - 1) |-> Obj(m + 1)]),
                   IF k > 1 THEN Kids(<<Obj(k)>>) ELSE NoKids)
        ELSE Links(NoKids, NoKids)]
\* a chain whose last object lists the first under `nodes`
Cycle(k) ==
    [j \in 1..k |-> Links(IF j < k THEN Kids(<<Obj(j + 1)>>) ELSE NoKids,
                          IF j = k THEN Kids(<<Obj(1)>>) ELSE NoKids)]
\* `children` that is not a list, and lists that hold non-objects
Skew == <<Links(NotAList, Kids(<<Obj(2), Leaf>>)), Links(Kids(<<Leaf>>), NoKids)>>
Shapes == {Chain(k) : k \in 1..SnapSize} \cup {Star(k) : k \in 1..SnapSize}
          \cup {Cycle(k) : k \in 1..SnapSize} \cup {Skew}

\* the objects of a snapshot: a shape and what each object says of itself
Heaps ==
    UNION {{[j \in 1..Len(sh) |-> Node(c[j], sh[j].children, sh[j].nodes)] :
                c \in [1..Len(sh) -> Contents]} : sh \in Shapes}

\* the value handed to _summarize_snapshot: null, a dict, a list, or
\* something else that is truthy
Root(t, items) == [t |-> t, items |-> items]
Snap(root, heap) == [root |-> root, heap |-> heap]
Snapshots ==
    {Snap(Root(t, << >>), << >>) : t \in {"none", "list", "other"}}
    \cup {Snap(Root("dict", <<Obj(1)>>), h) : h \in Heaps}
    \cup {Snap(Root("list", <<Leaf, Obj(1), Obj(Len(h))>>), h) : h \in Heaps}

\* `not snapshot`: null, the empty list and the empty dict
Falsy(s) ==
    \/ s.root.t = "none"
    \/ s.root.t = "list" /\ s.root.items = << >>
    \/ s.root.t = "dict" /\ s.heap[s.root.items[1].n] = Node(Bare, NoKids, NoKids)

\* the record collect builds for an object; `of` is not part of the record,
\* it tells apart the records of objects that say the same of themselves
Entry(of, role, name, attrs) == [of |-> of, role |-> role, name |-> name, attrs |-> attrs]
IsEmptyEntry(e) == e.role = Absent /\ e.name = Absent /\ e.attrs = EmptyDict
\* every attribute kept, whatever its key
kept_any(attributes) ==
    IF attributes.dict
    THEN SelectSeq(attributes.items, LAMBDA a : Truthy(a.v))
    ELSE EmptyDict
kept_data(attributes) ==
    IF attributes.dict
    THEN SelectSeq(attributes.items, LAMBDA a : IsData(a.k) /\ Truthy(a.v))
    ELSE EmptyDict
kept_attrs(c) ==
    LET data == kept_data(c.attributes)
        withId == IF Truthy(c.id) THEN Put(data, "id", c.id) ELSE data
    IN  IF Truthy(c.class) THEN Put(withId, "class", c.class) ELSE withId
entry_of(n, c) ==
    Entry(n, IF Truthy(c.role) THEN c.role ELSE Absent,
             IF Truthy(c.name) THEN c.name ELSE Absent,
             kept_attrs(c))

\* len(nodes) >= max_nodes, with one record too many let through
at_cap_late(n, cap) == n > cap
\* len(nodes) >= max_nodes
at_cap(n, cap) == n >= cap

\* what a call of the summarizer leaves alone
outsideSum == <<execVars, genVars, normVars, svcVars, raceVars>>

\* an active loop: the body of _summarize_snapshot over the root (key "top"),
\* or a call of collect on `of`, which is entered, then loops over the list
\* under `children`, then over the list under `nodes`; "after" is the point
\* behind a call of collect that has returned
Frame(of, phase, key, idx) == [of |-> of, phase |-> phase, key |-> key, idx |-> idx]
TopFrame == Frame([t |-> "root", n |-> 0], "loop", "top", 1)
Top == frames[Len(frames)]
\* the walk without the lists under `nodes`
list_of_children(f) ==
    IF f.key = "top"
    THEN snapshot.root.items
    ELSE IF f.key = "nodes" THEN << >>
    ELSE LET v == snapshot.heap[f.of.n][f.key]
         IN  IF v.list THEN v.items ELSE << >>
list_of(f) ==
    IF f.key = "top"
    THEN snapshot.root.items
    ELSE LET v == snapshot.heap[f.of.n][f.key]
         IN  IF v.list THEN v.items ELSE << >>
\* the calls of collect that are active
Depth == Len(frames) - 1
\* collect returns to the loop that called it
Return ==
    frames' = [SubSeq(frames, 1, Len(frames) - 1) EXCEPT ![Len(frames) - 1].phase = "after"]

\* _summarize_snapshot up to its dispatch on the type of the snapshot
SumStart ==
    /\ sumPc = "start"
    /\ IF Falsy(snapshot)
       THEN /\ sumPc' = "returned"
            /\ sumResult' = [k |-> "error", x |-> "no snapshot"]
            /\ UNCHANGED <<nodes, frames>>
       ELSE IF snapshot.root.t \in {"dict", "list"}
       THEN /\ sumPc' = "run"
            /\ frames' = <<TopFrame>>
            /\ nodes' = << >>
            /\ UNCHANGED sumResult
       ELSE /\ sumPc' = "returned"
            /\ sumResult' = [k |-> "nodes", x |-> << >>]
            /\ UNCHANGED <<nodes, frames>>
    /\ UNCHANGED <<snapshot, max_nodes>>
    /\ UNCHANGED outsideSum

\* collect from its guard to the append of the record
CollectEnter ==
    /\ sumPc = "run"
    /\ Top.phase = "enter"
    /\ IF Top.of.t # "obj" \/ at_cap(Len(nodes), max_nodes)
       THEN /\ Return
            /\ UNCHANGED nodes
       ELSE LET entry == entry_of(Top.of.n, snapshot.heap[Top.of.n].content) IN
            /\ nodes' = IF IsEmptyEntry(entry) THEN nodes ELSE Append(nodes, entry)
            /\ frames' = [frames EXCEPT ![Len(frames)] = Frame(Top.of, "loop", "children", 1)]
    /\ UNCHANGED <<snapshot, max_nodes, sumPc, sumResult>>
    /\ UNCHANGED outsideSum

\* the head of a loop: the next entry is handed to collect, or the list is
\* at its end and collect goes on to `nodes` or returns
CollectLoop ==
    /\ sumPc = "run"
    /\ Top.phase = "loop"
    /\ IF Top.idx <= Len(list_of(Top))
       THEN /\ Depth < RecLimit
            /\ frames' = Append(frames, Frame(list_of(Top)[Top.idx], "enter", "children", 1))
       ELSE /\ Top.key # "top"
            /\ IF Top.key = "children"
               THEN frames' = [frames EXCEPT ![Len(frames)] = Frame(Top.of, "loop", "nodes", 1)]
               ELSE Return
    /\ UNCHANGED <<snapshot, max_nodes, nodes, sumPc, sumResult>>
    /\ UNCHANGED outsideSum

\* a call of collect one level too deep: RecursionError unwinds every call,
\* nothing in _summarize_snapshot catches it
CollectOverflow ==
    /\ sumPc = "run"
    /\ Top.phase = "loop"
    /\ Top.idx <= Len(list_of(Top))
    /\ Depth >= RecLimit
    /\ sumPc' = "raised"
    /\ sumResult' = [k |-> "raised", x |-> "RecursionError"]
    /\ frames' = << >>
    /\ UNCHANGED <<snapshot, max_nodes, nodes>>
    /\ UNCHANGED outsideSum

\* the check behind a call of collect: at the cap collect returns, and the
\* loop over the root breaks
CollectAfter ==
    /\ sumPc = "run"
    /\ Top.phase = "after"
    /\ IF at_cap(Len(nodes), max_nodes)
       THEN IF Top.key = "top"
            THEN frames' = [frames EXCEPT ![Len(frames)] =
                                Frame(Top.of, "loop", "top", Len(list_of(Top)) + 1)]
            ELSE Return
       ELSE frames' = [frames EXCEPT ![Len(frames)] =
                            Frame(Top.of, "loop", Top.key, Top.idx + 1)]
    /\ UNCHANGED <<snapshot, max_nodes, nodes, sumPc, sumResult>>
    /\ UNCHANGED outsideSum

\* return {"nodes": nodes}
SumReturn ==
    /\ sumPc = "run"
    /\ Top.key = "top"
    /\ Top.phase = "loop"
    /\ Top.idx > Len(list_of(Top))
    /\ sumPc' = "returned"
    /\ sumResult' = [k |-> "nodes", x |-> nodes]
    /\ frames' = << >>
    /\ UNCHANGED <<snapshot, max_nodes, nodes>>
    /\ UNCHANGED outsideSum

\* the executor at rest, while a function of the planner is followed
ExecIdle ==
    /\ file = PlanFile("missing", Absent, << >>, TplNone)
    /\ pc = "idle"
    /\ i = 0
    /\ extracted = EmptyDict
    /\ had_error = FALSE
    /\ error_message = None
    /\ exc = None
    /\ stdout = << >>
    /\ stderr = << >>
    /\ exitCode = -1
    /\ browser = "none"
    /\ context = "none"
    /\ launches = 0
    /\ closes = 0
    /\ interpreted = << >>

SumInit ==
    /\ snapshot \in Snapshots
    /\ max_nodes \in 0..MaxCap
    /\ nodes = << >>
    /\ frames = << >>
    /\ sumPc = "start"
    /\ sumResult = [k |-> "none"]
    /\ ExecIdle
    /\ GenIdle
    /\ NormIdle
    /\ SvcIdle
    /\ RaceIdle

SumNext ==
    \/ SumStart
    \/ CollectEnter
    \/ CollectLoop
    \/ CollectOverflow
    \/ CollectAfter
    \/ SumReturn

SpecSum == SumInit /\ [][SumNext]_vars

\* ------------------------------------------------- claims on the summarizer
\* C15: whatever the snapshot and the cap, the list of records never holds
\* more than max_nodes records, neither while the walk runs nor in what is
\* returned, every record comes from an object of the snapshot, and a call of
\* collect on an entry that is not an object returns to its caller with the
\* list as it was and nothing raised.
C15_AtMostCapLeavesIgnored ==
    /\ [](/\ Len(nodes) <= max_nodes
          /\ \A n \in 1..Len(nodes) : nodes[n].of \in 1..Len(snapshot.heap)
          /\ sumResult.k = "nodes" => Len(sumResult.x) <= max_nodes)
    /\ [][(sumPc = "run" /\ Top.phase = "enter" /\ Top.of.t = "leaf") =>
              /\ nodes' = nodes
              /\ sumPc' = "run"
              /\ Len(frames') = Len(frames) - 1]_vars
\* a list root with an entry that is not an object, every object with a
\* record to give, more of them than the cap allows
C15_Witness ==
    /\ sumPc = "returned"
    /\ sumResult.k = "nodes"
    /\ max_nodes > 0
    /\ Len(sumResult.x) = max_nodes
    /\ snapshot.root.t = "list"
    /\ Len(snapshot.heap) > max_nodes
    /\ \A j \in 1..Len(snapshot.heap) : snapshot.heap[j].content = Named

\* C16: every call of _summarize_snapshot returns a value: the walk is
\* stopped by the count of records and never runs out of call depth.
C16_StopsByCount == sumPc # "raised"

\* the keys a record's attrs may have
IsKeptKey(key) == IsData(key) \/ key \in {"id", "class"}
AttrsKept(e) == \A n \in 1..Len(e.attrs) : IsKeptKey(e.attrs[n].k)
\* the object says something the summary keeps of itself
HasKeptAttr(c) ==
    \/ Truthy(c.id)
    \/ Truthy(c.class)
    \/ c.attributes.dict /\ \E n \in 1..Len(c.attributes.items) :
            IsData(c.attributes.items[n].k) /\ Truthy(c.attributes.items[n].v)
\* collect is at an object and under the cap
AtObject == sumPc = "run" /\ Top.phase = "enter" /\ Top.of.t = "obj"
               /\ Len(nodes) < max_nodes
HereContent == snapshot.heap[Top.of.n].content

\* C28, as claimed: a record is emitted for an object only if the object
\* carries a role or a name, and the attrs of every record hold only
\* data-*, id and class keys.
C28_RecordOnlyWithRoleOrName ==
    \A n \in 1..Len(nodes) :
        /\ nodes[n].role # Absent \/ nodes[n].name # Absent
        /\ AttrsKept(nodes[n])

\* C28, amended: a record is emitted for an object if and only if the
\* object carries a non-empty role, name, id, class or data-* attribute; an
\* object with none of them produces no record, and the attrs of every
\* record hold only data-*, id and class keys.
C28_RecordOnlyWhenNotEmpty ==
    /\ [](\A n \in 1..Len(nodes) :
            LET c == snapshot.heap[nodes[n].of].content
            IN  /\ Truthy(c.role) \/ Truthy(c.name) \/ HasKeptAttr(c)
                /\ AttrsKept(nodes[n]))
    /\ [][AtObject =>
            IF Truthy(HereContent.role) \/ Truthy(HereContent.name) \/ HasKeptAttr(HereContent)
            THEN Len(nodes') = Len(nodes) + 1 /\ nodes'[Len(nodes')].of = Top.of.n
            ELSE nodes' = nodes]_vars
\* an object with only a class gave a record, one with an empty role and
\* only an href gave none, and the cap was not in the way
C28_Witness ==
    /\ sumPc = "returned"
    /\ sumResult.k = "nodes"
    /\ snapshot.root.t = "dict"
    /\ Len(snapshot.heap) = 2
    /\ snapshot.heap[1].content = AttrOnly
    /\ snapshot.heap[2].content = Hidden
    /\ snapshot.heap[1].children = Kids(<<Obj(2)>>)
    /\ max_nodes = 2
    /\ Len(sumResult.x) = 1
    /\ sumResult.x[1].of = 1
    /\ sumResult.x[1].role = Absent
    /\ sumResult.x[1].name = Absent

\* the objects an object lists under `children` and `nodes`
Under(v) == IF v.list THEN v.items ELSE << >>
Succ(j) ==
    {k \in 1..Len(snapshot.heap) :
        \/ \E m \in 1..Len(Under(snapshot.heap[j].children)) :
                Under(snapshot.heap[j].children)[m] = Obj(k)
        \/ \E m \in 1..Len(Under(snapshot.heap[j].nodes)) :
                Under(snapshot.heap[j].nodes)[m] = Obj(k)}
RECURSIVE ReachFrom(_, _)
ReachFrom(S, k) ==
    IF k = 0 THEN S ELSE ReachFrom(S \cup UNION {Succ(j) : j \in S}, k - 1)
\* no object of the snapshot is under itself
Acyclic ==
    \A j \in 1..Len(snapshot.heap) : j \notin ReachFrom(Succ(j), Len(snapshot.heap))

\* the records of the depth-first pre-order walk without a cap: an object
\* before what is under it, `children` before `nodes`, lists in order
RECURSIVE WalkEntry(_, _)
RECURSIVE WalkList(_, _)
WalkEntry(e, fuel) ==
    IF e.t # "obj" \/ fuel = 0 THEN << >>
    ELSE LET nd == snapshot.heap[e.n]
             own == entry_of(e.n, nd.content)
         IN  (IF IsEmptyEntry(own) THEN << >> ELSE <<own>>)
             \o WalkList(Under(nd.children), fuel - 1)
             \o WalkList(Under(nd.nodes), fuel - 1)
WalkList(items, fuel) ==
    IF items = << >> THEN << >>
    ELSE WalkEntry(Head(items), fuel) \o WalkList(Tail(items), fuel)
Uncapped ==
    IF snapshot.root.t \in {"dict", "list"}
    THEN WalkList(snapshot.root.items, Len(snapshot.heap) + 1)
    ELSE << >>
FirstOf(s, n) == SubSeq(s, 1, IF n < Len(s) THEN n ELSE Len(s))

\* C29: for an acyclic snapshot and any cap, the list of records that
\* _summarize_snapshot returns is the first max_nodes records of the
\* uncapped depth-first pre-order walk; the cap cuts the list and neither
\* reorders it nor skips a record ahead of the cut.
C29_CapOnlyTruncates ==
    (sumPc = "returned" /\ sumResult.k = "nodes" /\ Acyclic) =>
        sumResult.x = FirstOf(Uncapped, max_nodes)
\* the cap cut a walk that had records under `children` and under `nodes`
C29_Witness ==
    /\ sumPc = "returned"
    /\ sumResult.k = "nodes"
    /\ Acyclic
    /\ max_nodes = 2
    /\ Len(Uncapped) > 2
    /\ Len(snapshot.heap) = 3
    /\ snapshot.heap[1].nodes # NoKids
    /\ sumResult.x = <<Uncapped[1], Uncapped[2]>>
    /\ sumResult.x[1].of # sumResult.x[2].of

\* ====================================================== snapshot acquisition
\* generate_plan of llmPlan.py up to the call of the language model: the
\* remote source, then either the summarizer or the page-inspection fallback.

\* a dict held by generate_plan: whether it has the key "error", the message
\* under it, and the snapshot it carries otherwise
Val(err, msg, snap) == [k |-> "dict", err |-> err, msg |-> msg, snap |-> snap]
NoSnap == Snap(Root("none", << >>), << >>)
Err(msg) == Val(TRUE, msg, NoSnap)

\* snapshots a remote source may send
TreeSnap ==
    Snap(Root("dict", <<Obj(1)>>),
         <<Node(Named, Kids(<<Obj(2), Leaf>>), NoKids), Node(AttrOnly, NoKids, NoKids)>>)
EmptyDictSnap == Snap(Root("dict", <<Obj(1)>>), <<Node(Bare, NoKids, NoKids)>>)
ListSnap == Snap(Root("list", <<Obj(1)>>), <<Node(Named, NoKids, NoKids)>>)
EmptyListSnap == Snap(Root("list", << >>), << >>)

\* what a content part carries once decoded: a dict (with or without a key
\* "error"), a list, a scalar, or text that is not JSON
Data(t, err, snap) == [t |-> t, err |-> err, snap |-> snap]
DataSet ==
    {Data("dict", FALSE, TreeSnap), Data("dict", FALSE, EmptyDictSnap),
     Data("dict", TRUE, TreeSnap), Data("list", FALSE, ListSnap),
     Data("list", FALSE, EmptyListSnap), Data("scalar", FALSE, NoSnap),
     Data("notjson", FALSE, NoSnap)}

\* the remote source: the call that raises, if any, the tools it lists and
\* the content part its snapshot tool answers with
Remote(fails, tools, type, data) ==
    [stage |-> "remote", fails |-> fails, tools |-> tools, type |-> type, data |-> data]
RemoteStages == {"connect", "handshake", "list_tools", "call_tool"}
ToolLists == {<<"click", "snapshot">>, <<"browser_snapshot">>, <<"click">>, << >>}
PartTypes == {"application/json", "text/plain", "image/png"}
Remotes ==
    {Remote(f, <<"snapshot">>, "text/plain", Data("notjson", FALSE, NoSnap)) : f \in RemoteStages}
    \cup {Remote("none", t, "application/json", Data("dict", FALSE, TreeSnap)) : t \in ToolLists}
    \cup {Remote("none", <<"snapshot">>, ty, d) : ty \in PartTypes, d \in DataSet}

\* a tool named in `preferred`, or one with "snapshot" in its lowered name
IsSnapshotTool(name) == name \in {"snapshot", "browser_snapshot"}
has_snapshot_tool(tools) == \E n \in 1..Len(tools) : IsSnapshotTool(tools[n])

\* {"nodes": data}
wrap_list(snap) ==
    Snap(Root("dict", <<Obj(Len(snap.heap) + 1)>>),
         Append(snap.heap, Node(Bare, NoKids, Kids(snap.root.items))))

\* a part that is JSON data or text is decoded; a dict is returned as it is,
\* a list is wrapped, anything else leaves the scan without a result
usable(type, data) ==
    /\ type \in {"application/json", "text/plain"}
    /\ data.t \in {"dict", "list"}

\* _get_mcp_snapshot_sync: every exception becomes an error dict
remote_result(r) ==
    IF r.fails # "none" THEN Err("mcp sse failed")
    ELSE IF ~has_snapshot_tool(r.tools) THEN Err("no snapshot-like tool found on MCP server")
    ELSE IF ~usable(r.type, r.data) THEN Err("snapshot tool returned no usable JSON")
    ELSE IF r.data.t = "dict" THEN Val(r.data.err, "remote", r.data.snap)
    ELSE Val(FALSE, "", wrap_list(r.data.snap))

\* "error" in snapshot
has_error(v) == v.err

\* what generate_plan hands to the planning step: an error dict or a summary
Block(k, x) == [k |-> k, x |-> x]

\* _summarize_snapshot as generate_plan sees it: an error dict for a falsy
\* snapshot, a node list otherwise (the walk itself is followed in SpecSum)
summary_of(snap) ==
    IF Falsy(snap) THEN Block("error", "no snapshot") ELSE Block("nodes", "remote")

\* _pick_url_from_goal_or_env: the first URL of the goal, else START_URL
StartUrls == {None, "", "http://start"}
pick_url(hasUrl, startUrl) == IF hasUrl THEN "http://goal" ELSE startUrl

\* how the page-inspection session goes: the call that raises, if any
Pages == {"ok", "start_fails", "launch_fails", "goto_fails", "evaluate_fails"}

Acquired(raised, block) == [raised |-> raised, block |-> block]
\* the fallback without its try/except
fallback_uncaught(url, pg) ==
    IF ~Truthy(url)
    THEN Acquired(FALSE, Block("error", "no URL found (include a URL in the goal or set START_URL)"))
    ELSE IF pg = "ok" THEN Acquired(FALSE, Block("nodes", url))
    ELSE Acquired(TRUE, Block("error", pg))
\* _playwright_fallback_snapshot: no session without a URL; whatever the
\* session raises becomes an error dict
playwright_fallback_snapshot(url, pg) ==
    IF ~Truthy(url)
    THEN Acquired(FALSE, Block("error", "no URL found (include a URL in the goal or set START_URL)"))
    ELSE IF pg = "ok" THEN Acquired(FALSE, Block("nodes", url))
    ELSE Acquired(FALSE, Block("error", "playwright fallback failed"))

\* the fallback's session: the driver that sync_playwright() starts
\* ("none", "running", "stopped") and the browser it launches ("none",
\* "open", "closed")
Session(drv, brw) == [driver |-> drv, browser |-> brw]
NoSession == Session("none", "none")
\* lines 190-224, the session where the with block is left: by the
\* exception of the call that raises, or past browser.close()
session_in_with(pg) ==
    CASE pg = "start_fails" -> NoSession
      [] pg = "launch_fails" -> Session("running", "none")
      [] pg \in {"goto_fails", "evaluate_fails"} -> Session("running", "open")
      [] OTHER -> Session("running", "closed")
\* the block left without the context manager taking part
with_exit_none(s) == s
\* the __exit__ of sync_playwright(), run on every way out of the block
\* that was entered: the driver is stopped, and with it every browser it
\* launched
with_exit(s) ==
    IF s.driver = "running"
    THEN Session("stopped", IF s.browser = "open" THEN "closed" ELSE s.browser)
    ELSE s
\* the session as _playwright_fallback_snapshot leaves it
fallback_session(url, pg) ==
    IF ~Truthy(url) THEN NoSession ELSE with_exit(session_in_with(pg))

outsideGen == <<execVars, sumVars, normVars, svcVars, raceVars>>
genEnv == <<api_key, remote, goal_has_url, start_url, page>>

\* generate_plan up to the snapshot: the key is checked, the instructions
\* and the schema are read
GenStart ==
    /\ genPc = "start"
    /\ genPc' = IF api_key THEN "remote" ELSE "raised"
    /\ UNCHANGED <<genEnv, mcp_snapshot, source_tag, snapshot_block, attempts, inspection,
                   plan_calls>>
    /\ UNCHANGED outsideGen

\* snapshot = _get_mcp_snapshot_sync(config.MCP_SSE_URL)
GenRemote ==
    /\ genPc = "remote"
    /\ source_tag' = "MCP_SNAPSHOT_SUMMARY"
    /\ mcp_snapshot' = remote_result(remote)
    /\ attempts' = Append(attempts, "remote")
    /\ genPc' = "choose"
    /\ UNCHANGED <<genEnv, snapshot_block, inspection, plan_calls>>
    /\ UNCHANGED outsideGen

\* "error" in snapshot: the fallback supplies the context
GenFallback ==
    /\ genPc = "choose"
    /\ has_error(mcp_snapshot)
    /\ source_tag' = "PLAYWRIGHT_FALLBACK_SUMMARY"
    /\ attempts' = Append(attempts, "fallback")
    /\ inspection' = fallback_session(pick_url(goal_has_url, start_url), page)
    /\ LET r == playwright_fallback_snapshot(pick_url(goal_has_url, start_url), page) IN
        /\ snapshot_block' = IF r.raised THEN snapshot_block ELSE r.block
        /\ genPc' = IF r.raised THEN "raised" ELSE "plan"
    /\ UNCHANGED <<genEnv, mcp_snapshot, plan_calls>>
    /\ UNCHANGED outsideGen

\* otherwise the summary of the remote snapshot is the context
GenSummarize ==
    /\ genPc = "choose"
    /\ ~has_error(mcp_snapshot)
    /\ snapshot_block' = summary_of(mcp_snapshot.snap)
    /\ genPc' = "plan"
    /\ UNCHANGED <<genEnv, mcp_snapshot, source_tag, attempts, inspection, plan_calls>>
    /\ UNCHANGED outsideGen

\* the planning step: the language model is called with the context under
\* the tag of its source
GenPlan ==
    /\ genPc = "plan"
    /\ plan_calls' = Append(plan_calls, [tag |-> source_tag, block |-> snapshot_block])
    /\ genPc' = "called"
    /\ UNCHANGED <<genEnv, mcp_snapshot, source_tag, snapshot_block, attempts, inspection>>
    /\ UNCHANGED outsideGen

GenInit ==
    /\ api_key \in BOOLEAN
    /\ remote \in Remotes
    /\ goal_has_url \in BOOLEAN
    /\ start_url \in StartUrls
    /\ page \in Pages
    /\ genPc = "start"
    /\ mcp_snapshot = [k |-> "none"]
    /\ source_tag = None
    /\ snapshot_block = [k |-> "none"]
    /\ attempts = << >>
    /\ inspection = [driver |-> "none", browser |-> "none"]
    /\ plan_calls = << >>
    /\ ExecIdle
    /\ SumIdle
    /\ NormIdle
    /\ SvcIdle
    /\ RaceIdle

GenNext ==
    \/ GenStart
    \/ GenRemote
    \/ GenFallback
    \/ GenSummarize
    \/ GenPlan

SpecGen == GenInit /\ [][GenNext]_vars

\* ------------------------------------------------- claims on the acquisition
\* the context has been settled
Planned == genPc \in {"plan", "called"}
FallbackRan == \E n \in 1..Len(attempts) : attempts[n] = "fallback"
\* the remote attempt gave no snapshot to plan from: a call raised, no tool
\* matched, no part held an object or a list, or the payload was an error
\* report or empty
RemoteFailed ==
    LET v == remote_result(remote) IN v.err \/ Falsy(v.snap)
FallbackFails == ~Truthy(pick_url(goal_has_url, start_url)) \/ page # "ok"

\* C17: whenever generate_plan has a context for the planning step, the
\* remote source was tried first, the fallback ran if and only if the remote
\* attempt had failed, and the context comes from exactly one of the two:
\* from the fallback when it ran, from the remote snapshot otherwise.
C17_FallbackIffRemoteFailed ==
    Planned =>
        /\ attempts[1] = "remote"
        /\ FallbackRan <=> RemoteFailed
        /\ source_tag = (IF FallbackRan THEN "PLAYWRIGHT_FALLBACK_SUMMARY"
                                        ELSE "MCP_SNAPSHOT_SUMMARY")
        /\ Len(attempts) = (IF FallbackRan THEN 2 ELSE 1)

\* C18: once the key is there, nothing raised by either source leaves
\* generate_plan before the planning step; when the remote attempt fails and
\* the fallback fails too, the context is an error dict, and the planning
\* step is invoked with exactly the context that was acquired.
C18_AcquisitionNeverAborts ==
    /\ genPc = "raised" => ~api_key /\ attempts = << >>
    /\ (Planned /\ FallbackRan /\ FallbackFails) => snapshot_block.k = "error"
    /\ genPc = "plan" => ENABLED GenPlan
    /\ genPc = "called" =>
           plan_calls = <<[tag |-> source_tag, block |-> snapshot_block]>>
\* the remote source cannot be reached, the page does not load, and the
\* planning step has the error as its context
C18_Witness ==
    /\ genPc = "called"
    /\ remote.fails = "connect"
    /\ page = "goto_fails"
    /\ goal_has_url
    /\ plan_calls[1].tag = "PLAYWRIGHT_FALLBACK_SUMMARY"
    /\ plan_calls[1].block = Block("error", "playwright fallback failed")

\* ======================================================= selector normalizer
\* _normalize of robotAI.py. A selector is the sequence of its tokens; a
\* token is a piece of text that the patterns of the code match whole or not
\* at all, so that matching over tokens is matching over characters.

\* the most tokens a text fragment holds
FragLen == 3
\* how often _normalize is applied in a row
NormRounds == 2

SQ == "'"
DQ == "\""
BS == "\\"
Quotes == {SQ, DQ}
CardScope == ".inventory_item"
NameClass == ".inventory_item_name"
PriceClass == ".inventory_item_price"
\* what a text fragment is made of
FragTokens == {"Hi", SQ, DQ, ")", "name"}
Fragments == SeqsUpTo(FragTokens, FragLen)

\* tokens whose text holds ".inventory_item"
CardTokens == {CardScope, NameClass, PriceClass}
\* tokens that end, or start, with a letter, a digit or an underscore
EndsWord == {CardScope, NameClass, PriceClass, ".x", "Hi", "Lo", "name", "price"}
StartsWord == {"Hi", "Lo", "name", "price"}

\* intro 'F') or intro "F")
Frag(intro, q, F) == <<intro, q>> \o F \o <<q, ")">>
\* a text fragment of a selector: its pseudo-class, its quote, its text
FragPart(intro, q, F) == [intro |-> intro, q |-> q, F |-> F]
NoFrag == FragPart("none", SQ, << >>)
frag_text(f) == IF f.intro = "none" THEN << >> ELSE Frag(f.intro, f.q, f.F)

\* how a selector is built: a scope with the first fragment on it ("flat"),
\* or a scope with :has(<name class><first fragment>) ("nested"); then what
\* it descends to, then an optional second fragment
Scopes == {CardScope, ".x"}
SelectorShapes == {"flat", "nested"}
Tails == {<< >>, <<" ", NameClass>>, <<" ", PriceClass>>}
FirstFrags == {FragPart(intro, q, F) : intro \in {":contains(", ":has-text("},
                                      q \in Quotes, F \in Fragments}
SecondFrags == {NoFrag, FragPart(":contains(", SQ, <<"Lo">>), FragPart(":has-text(", DQ, <<"Lo">>)}
build(shape, scope, f1, tail, f2) ==
    (IF shape = "flat"
     THEN <<scope>> \o frag_text(f1)
     ELSE <<scope, ":has(", NameClass>> \o frag_text(f1) \o <<")">>)
    \o tail \o frag_text(f2)
Selector(shape, scope, f1, tail, f2) ==
    [shape |-> shape, scope |-> scope, f1 |-> f1, tail |-> tail, f2 |-> f2,
     text |-> build(shape, scope, f1, tail, f2)]
Selectors ==
    {Selector(sh, sc, f1, t, f2) : sh \in SelectorShapes, sc \in Scopes, f1 \in FirstFrags,
                                   t \in Tails, f2 \in SecondFrags}

Least(S) == CHOOSE n \in S : \A m \in S : n <= m

\* re.search(intro + r'(["\'])(.*?)\1\)', sel): the leftmost place where
\* intro and a quote are followed, as soon as possible, by the same quote
\* and a closing parenthesis; p is where intro is, e where the quote closes
closers(sel, p) ==
    {e \in (p + 2)..(Len(sel) - 1) : sel[e] = sel[p + 1] /\ sel[e + 1] = ")"}
search(sel, intro) ==
    LET starts == {p \in 1..(Len(sel) - 3) :
                      sel[p] = intro /\ sel[p + 1] \in Quotes /\ closers(sel, p) # {}}
    IN  IF starts = {}
        THEN [found |-> FALSE, p |-> 0, e |-> 0]
        ELSE [found |-> TRUE, p |-> Least(starts), e |-> Least(closers(sel, Least(starts)))]
group2(sel, m) == SubSeq(sel, m.p + 2, m.e - 1)

\* _text_from_selector: the text of the first :has-text, else of the first
\* :contains; found is FALSE for None
text_from_selector(sel) ==
    LET m == search(sel, ":has-text(")
        m2 == search(sel, ":contains(")
    IN  IF m.found THEN [found |-> TRUE, text |-> group2(sel, m)]
        ELSE IF m2.found THEN [found |-> TRUE, text |-> group2(sel, m2)]
        ELSE [found |-> FALSE, text |-> << >>]

\* text.replace('"', '\\"')
RECURSIVE escape_quotes(_)
escape_quotes(F) ==
    IF F = << >> THEN << >>
    ELSE (IF Head(F) = DQ THEN <<BS, DQ>> ELSE <<Head(F)>>) \o escape_quotes(Tail(F))

\* f':has-text("{text}")'
has_text(text) == <<":has-text(", DQ>> \o text \o <<DQ, ")">>

\* _replace_contains: re.sub over every match, left to right
RECURSIVE replace_contains(_)
replace_contains(sel) ==
    LET m == search(sel, ":contains(") IN
    IF ~m.found THEN sel
    ELSE SubSeq(sel, 1, m.p - 1) \o has_text(escape_quotes(group2(sel, m)))
         \o replace_contains(SubSeq(sel, m.e + 2, Len(sel)))

\* needle in sel, for the two class names the code looks for
mentions(sel, tokens) == \E n \in 1..Len(sel) : sel[n] \in tokens
\* re.search(r"\bword\b", sel)
has_word(sel, word) ==
    \E n \in 1..Len(sel) :
        /\ sel[n] = word
        /\ n > 1 => sel[n - 1] \notin EndsWord
        /\ n < Len(sel) => sel[n + 1] \notin StartsWord

flat_form(txt, sub) == <<CardScope, ":has-text(", DQ>> \o txt \o <<DQ, ")", " ", sub>>

\* what a call returns and what it prints
Normalized(out, prints) == [out |-> out, prints |-> prints]

\* _flatten_inventory_selector
flatten_inventory_selector(selector_) ==
    LET sel == replace_contains(selector_)
        txt == text_from_selector(sel)
        wants_name == mentions(sel, {NameClass}) \/ has_word(sel, "name")
        wants_price == mentions(sel, {PriceClass}) \/ has_word(sel, "price")
        simplified == flat_form(txt.text, IF wants_name THEN NameClass ELSE PriceClass)
    IN  IF txt.found /\ txt.text # << >> /\ mentions(sel, CardTokens)
           /\ (wants_name \/ wants_price)
        THEN Normalized(simplified,
                        IF sel # simplified THEN <<"[selector flattened]">> ELSE << >>)
        ELSE Normalized(sel, << >>)

\* _normalize
normalize(selector_) ==
    LET after == flatten_inventory_selector(selector_) IN
    Normalized(after.out,
               after.prints \o (IF selector_ # after.out THEN <<"[selector normalized]">>
                                                         ELSE << >>))

outsideNorm == <<execVars, sumVars, genVars, svcVars, raceVars>>

\* _normalize is applied to the selector, then to what it returned
Normalize ==
    /\ selector.text # << >>
    /\ Len(norm_outs) < NormRounds
    /\ LET r == normalize(IF norm_outs = << >> THEN selector.text
                                               ELSE norm_outs[Len(norm_outs)]) IN
        /\ norm_outs' = Append(norm_outs, r.out)
        /\ norm_prints' = norm_prints \o r.prints
    /\ UNCHANGED selector
    /\ UNCHANGED outsideNorm

NormInit ==
    /\ selector \in Selectors
    /\ norm_outs = << >>
    /\ norm_prints = << >>
    /\ ExecIdle
    /\ SumIdle
    /\ GenIdle
    /\ SvcIdle
    /\ RaceIdle

NormNext == Normalize

SpecNorm == NormInit /\ [][NormNext]_vars

\* -------------------------------------------------- claims on the normalizer
\* a occurs in b as a run of neighbouring tokens
IsSub(a, b) == \E k \in 0..(Len(b) - Len(a)) : SubSeq(b, k + 1, k + Len(a)) = a
\* the selector has one text fragment, and the fragment does not hold the
\* quote it is written in
OneFragment == selector.f2 = NoFrag /\ \A n \in 1..Len(selector.f1.F) : selector.f1.F[n] # selector.f1.q
Normalized1 == Len(norm_outs) >= 1

\* C19: when the one fragment of the selector is :contains('X') or
\* :contains("X"), what _normalize returns holds :has-text("X") with every
\* double quote of X escaped, and holds no :contains( any more.
C19_ContainsBecomesHasText ==
    (Normalized1 /\ OneFragment /\ selector.f1.intro = ":contains(") =>
        /\ IsSub(has_text(escape_quotes(selector.f1.F)), norm_outs[1])
        /\ ~mentions(norm_outs[1], {":contains("})

\* C20: when the selector is on the item-card scope, its one fragment is
\* :has-text with a text F that is not empty, and it references the name
\* sub-field, _normalize returns .inventory_item:has-text("F")
\* .inventory_item_name, and _normalize of that returns it again.
C20_FlatNameFormIdempotent ==
    (/\ Normalized1 /\ OneFragment
     /\ selector.scope = CardScope
     /\ selector.f1.intro = ":has-text(" /\ selector.f1.F # << >>
     /\ (selector.shape = "nested" \/ selector.tail = <<" ", NameClass>>)) =>
        /\ norm_outs[1] = flat_form(selector.f1.F, NameClass)
        /\ Len(norm_outs) >= 2 => norm_outs[2] = norm_outs[1]

\* the selector has one fragment, is on the item-card scope and descends to
\* the price sub-field: nothing of its structure references the name
PriceOnly ==
    /\ OneFragment
    /\ selector.shape = "flat"
    /\ selector.scope = CardScope
    /\ selector.tail = <<" ", PriceClass>>
    /\ selector.f1.F # << >>
\* the fragment text as the flattened form is to hold it
FragmentText ==
    IF selector.f1.intro = ":contains(" THEN escape_quotes(selector.f1.F)
                                        ELSE selector.f1.F

\* C30: a selector that references only the price sub-field is flattened to
\* .inventory_item:has-text("F") .inventory_item_price whatever its fragment
\* text F is, the word `name` in F included.
C30_PriceOnlyFlattensToPrice ==
    (Normalized1 /\ PriceOnly) => norm_outs[1] = flat_form(FragmentText, PriceClass)

\* ========================================================== /launch handler
\* launch of app.py for one request: generate_plan, then robotAI.py as a
\* subprocess (the executor above), then the reading of its standard output.

Environments == {"development", "production"}

\* the line holds a brace: the production formatter writes every log record
\* as a JSON object, the step header and its log record hold the repr of the
\* step's args, the report is a JSON object
has_brace(line, env) ==
    \/ line.k \in {"step", "report"}
    \/ line.k = "log" /\ (env = "production" \/ line.x = "Step")

\* _extract_error_line: the first line that starts with "Error:"
extract_error_line(out) ==
    IF \E n \in 1..Len(out) : out[n].k = "error"
    THEN out[CHOOSE n \in 1..Len(out) :
                out[n].k = "error" /\ \A m \in 1..(n - 1) : out[m].k # "error"].x
    ELSE None

\* re.findall(r"\{.*\}", stdout, flags=re.DOTALL): the pattern is greedy and
\* the dot crosses line ends, so there is at most one candidate, from the
\* first opening brace of the output to its last closing brace
BraceLines(out, env) == {n \in 1..Len(out) : has_brace(out[n], env)}
candidate(out, env) ==
    LET B == BraceLines(out, env) IN
    IF B = {} THEN [found |-> FALSE, from |-> 0, to |-> 0]
    ELSE [found |-> TRUE, from |-> CHOOSE n \in B : \A m \in B : n <= m,
                          to |-> CHOOSE n \in B : \A m \in B : m <= n]

\* _parse_json_tail: json.loads takes the candidate only when it is one
\* object, that is when it lies within the report line; the `extracted` of
\* the object when that is a dict, else {}
parse_json_tail(out, env) ==
    LET c == candidate(out, env) IN
    IF c.found /\ c.from = c.to /\ out[c.from].k = "report"
       /\ "extracted" \in out[c.from].x.keys
    THEN out[c.from].x.extracted
    ELSE EmptyDict

\* keys that start with "step", "goal", "error" or "call log"
IsControlKey(key) == key \in {"step", "goal", "error"}
\* ^[A-Za-z0-9_]+$
IsSaneKey(key) == key \in Ids \cup {"step", "goal", "error"}

\* _fallback_key_values: of the lines the executor prints, those of the
\* block of captured values have a key that passes the filters; the log
\* records, the headers and the report do not
RECURSIVE fallback_key_values(_)
fallback_key_values(out) ==
    IF out = << >> THEN EmptyDict
    ELSE LET before == fallback_key_values(SubSeq(out, 1, Len(out) - 1))
             line == out[Len(out)]
         IN  IF line.k = "value" /\ IsSaneKey(line.x.k) /\ ~IsControlKey(line.x.k)
             THEN Put(before, line.x.k, line.x.v)
             ELSE before

\* what the handler answers: the status, and for 200 the body
Resp(status, src, ext, err) == [status |-> status, src |-> src, extracted |-> ext, error |-> err]
Failure(status) == Resp(status, "none", EmptyDict, Absent)

\* lines 358-381: the body of the answer, from the standard output of a
\* runner that exited with 0; src tells which of the two readers gave
\* `extracted`
read_result(out, env) ==
    LET error_msg == extract_error_line(out)
        tail == parse_json_tail(out, env)
        ext == IF tail = EmptyDict THEN fallback_key_values(out) ELSE tail
    IN  Resp(200, IF tail = EmptyDict THEN "lines" ELSE "json", ext,
             IF Truthy(error_msg) /\ ext = EmptyDict THEN error_msg ELSE Absent)

\* the status for a runner that exited with a code other than 0, were the
\* code not looked at
exit_ignored(code) == 200
\* lines 351-356
status_of_exit(code) == IF code # 0 THEN 500 ELSE 200

outsideSvc == <<sumVars, genVars, normVars, raceVars>>
execRest == <<file, i, extracted, had_error, error_message, exc, stdout, stderr,
              exitCode, browser, context, launches, closes, interpreted>>

\* lines 333-346: generate_plan; when it raises the answer is 400, else the
\* runner is started
HandlerGenerate ==
    /\ hPc = "start"
    /\ IF gen_fails
       THEN /\ response' = Failure(400)
            /\ failure' = "generation"
            /\ hPc' = "responded"
            /\ UNCHANGED pc
       ELSE /\ hPc' = "runner"
            /\ pc' = "load"
            /\ UNCHANGED <<response, failure>>
    /\ UNCHANGED <<environment, gen_fails>>
    /\ UNCHANGED execRest
    /\ UNCHANGED outsideSvc

\* subprocess.run raises something other than TimeoutExpired (the runner
\* could not be started): the outer handler answers 500
RunnerNotStarted ==
    /\ hPc = "runner"
    /\ pc = "load"
    /\ response' = Failure(500)
    /\ failure' = "spawn"
    /\ hPc' = "responded"
    /\ UNCHANGED <<environment, gen_fails>>
    /\ UNCHANGED execVars
    /\ UNCHANGED outsideSvc

\* _run_robot_runner, lines 171-175: the runner is still running when
\* timeout_sec is over
RunnerTimeout ==
    /\ hPc = "runner"
    /\ pc # "done"
    /\ response' = Failure(504)
    /\ failure' = "timeout"
    /\ hPc' = "responded"
    /\ UNCHANGED <<environment, gen_fails>>
    /\ UNCHANGED execVars
    /\ UNCHANGED outsideSvc

\* lines 349-381: the runner has exited
RunnerReturned ==
    /\ hPc = "runner"
    /\ pc = "done"
    /\ response' = IF status_of_exit(exitCode) # 200
                   THEN Failure(status_of_exit(exitCode))
                   ELSE read_result(stdout, environment)
    /\ failure' = IF exitCode # 0 THEN "exit" ELSE "none"
    /\ hPc' = "responded"
    /\ UNCHANGED <<environment, gen_fails>>
    /\ UNCHANGED execVars
    /\ UNCHANGED outsideSvc

\* a request arrives; plan.json will hold a plan that generate_plan wrote
LaunchInit ==
    /\ environment \in Environments
    /\ gen_fails \in BOOLEAN
    /\ hPc = "start"
    /\ failure = "none"
    /\ response = [status |-> 0]
    /\ file \in {f \in PlanFiles : f.kind = "ok"}
    /\ pc = "idle"
    /\ i = 0
    /\ extracted = EmptyDict
    /\ had_error = FALSE
    /\ error_message = None
    /\ exc = None
    /\ stdout = << >>
    /\ stderr = << >>
    /\ exitCode = -1
    /\ browser = "none"
    /\ context = "none"
    /\ launches = 0
    /\ closes = 0
    /\ interpreted = << >>
    /\ SumIdle
    /\ GenIdle
    /\ NormIdle
    /\ RaceIdle

\* while the handler waits in subprocess.run the executor runs
RunnerStep == hPc = "runner" /\ Next

LaunchNext ==
    \/ HandlerGenerate
    \/ RunnerNotStarted
    \/ RunnerTimeout
    \/ RunnerReturned
    \/ RunnerStep

SpecLaunch == LaunchInit /\ [][LaunchNext]_vars

\* --------------------------------------------------- claims on the handler
Responded == hPc = "responded"
\* the JSON objects on the runner's output that have an `extracted` object
\* with something in it
ExtractedObjects ==
    SelectSeq(stdout, LAMBDA l : /\ l.k = "report"
                                 /\ "extracted" \in l.x.keys
                                 /\ l.x.extracted # EmptyDict)

\* C21: when the handler answers 200 and the runner's output holds a JSON
\* object with a non-empty `extracted` object, the `extracted` of the answer
\* is that of the last such object and was read from it, not from the
\* `key: value` lines, whatever braces the lines before it hold.
C21_ExtractedFromLastObject ==
    (Responded /\ response.status = 200 /\ ExtractedObjects # << >>) =>
        /\ response.src = "json"
        /\ response.extracted = ExtractedObjects[Len(ExtractedObjects)].x.extracted

\* C22: a request whose plan generation failed is answered 400, one whose
\* runner timed out 504, one whose runner exited with a code other than 0
\* 500; a 200 is answered only when nothing failed and the runner exited 0.
C22_StatusPerFailure ==
    Responded =>
        /\ failure = "generation" <=> gen_fails
        /\ failure = "generation" => response.status = 400
        /\ failure = "timeout" => response.status = 504
        /\ (pc = "done" /\ exitCode # 0) => (failure = "exit" /\ response.status = 500)
        /\ response.status = 200 => (failure = "none" /\ pc = "done" /\ exitCode = 0)
\* a runner that exited with 1, answered 500
C22_Witness ==
    /\ Responded
    /\ failure = "exit"
    /\ exitCode = 1
    /\ response.status = 500

\* ============================================== requests that share plan.json
\* generate_plan writes PLAN_PATH (llmPlan.py line 305) and robotAI.py loads
\* DEFAULT_PLAN_PATH: one file in the working directory, whoever the request
\* is and whichever server process handles it.

\* the requests that are sent
NReq == 3
\* the server processes
NWorkers == 2
Requests == 1..NReq
Workers == 1..NWorkers

Req(worker, at, loaded) == [worker |-> worker, at |-> at, loaded |-> loaded]
\* launch calls generate_plan and subprocess.run without awaiting between
\* them: a server process is inside at most one handler at a time
Busy(w) == \E r \in Requests : reqs[r].worker = w /\ reqs[r].at = "generated"

\* lines 337-346 for request r: its plan is written to plan.json, or
\* generate_plan raises and the request is answered 400
HandlerPlans(r) ==
    /\ reqs[r].at = "start"
    /\ ~Busy(reqs[r].worker)
    /\ \/ /\ plan_json' = r
          /\ reqs' = [reqs EXCEPT ![r].at = "generated"]
       \/ /\ reqs' = [reqs EXCEPT ![r].at = "rejected"]
          /\ UNCHANGED plan_json
    /\ UNCHANGED <<execVars, sumVars, genVars, normVars, svcVars>>

\* line 349 for request r: the runner loads whatever plan.json holds
HandlerRuns(r) ==
    /\ reqs[r].at = "generated"
    /\ reqs' = [reqs EXCEPT ![r] = Req(reqs[r].worker, "ran", plan_json)]
    /\ UNCHANGED plan_json
    /\ UNCHANGED <<execVars, sumVars, genVars, normVars, svcVars>>

RaceInit ==
    /\ plan_json = 0
    /\ reqs \in [Requests -> {Req(w, "start", 0) : w \in Workers}]
    /\ ExecIdle
    /\ SumIdle
    /\ GenIdle
    /\ NormIdle
    /\ SvcIdle

RaceNext ==
    \/ \E r \in Requests : HandlerPlans(r)
    \/ \E r \in Requests : HandlerRuns(r)

SpecRace == RaceInit /\ [][RaceNext]_vars

\* C23: the plan that the runner of a request loads is the plan that was
\* generated for that request.
C23_RunnerLoadsOwnPlan ==
    \A r \in Requests : reqs[r].at = "ran" => reqs[r].loaded = r

\* a dict as the set of its items
Items(d) == {<<d[n].k, d[n].v>> : n \in 1..Len(d)}
\* the runner exited with 0 and the handler answered from its output
Answered == Responded /\ failure = "none" /\ response.status = 200

\* C31: when the runner exits with 0, the `extracted` of the answer holds
\* the ids and values of the executor's ExtractedValues, ids that begin with
\* step, goal or error included, and the answer has an `error` exactly when
\* the executor's report has one.
C31_ResponseAgreesWithReport ==
    Answered =>
        /\ Items(response.extracted) = Items(extracted)
        /\ response.error # Absent <=> (Reports # << >> /\ "error" \in TheReport.keys)

\* C32: with every call of the driver returning or raising within its
\* deadline, every run on a plan the loader accepts terminates, having
\* emitted its report and released its session, after at most len(steps)
\* step interpretations.
C32_RunReachesReportAndRelease ==
    (pc = "load" /\ Accepted) ~>
        (/\ Done
         /\ Len(Reports) = 1
         /\ launches = 1 /\ closes = 1
         /\ Len(interpreted) <= Len(Steps))

\* C33: the fallback opens a session of its own and never touches the
\* executor's; whichever way _playwright_fallback_snapshot is left, with the
\* page load or the DOM walk failing included, no driver is left running and
\* no browser open; without a resolvable URL it returns its error and no
\* session was opened.
C33_InspectionSessionReleased ==
    /\ [](/\ inspection.driver \in {"none", "stopped"}
          /\ inspection.browser \in {"none", "closed"}
          /\ ~FallbackRan => inspection = NoSession
          /\ (FallbackRan /\ ~Truthy(pick_url(goal_has_url, start_url))) =>
                /\ inspection = NoSession
                /\ Planned => snapshot_block.k = "error")
    /\ [][/\ UNCHANGED <<browser, context, launches, closes>>
          /\ inspection' # inspection =>
                /\ genPc = "choose" /\ has_error(mcp_snapshot)
                /\ Truthy(pick_url(goal_has_url, start_url))]_vars
\* the page did not load, and the browser that was launched for it is closed
C33_Witness ==
    /\ genPc = "called"
    /\ FallbackRan
    /\ page = "goto_fails"
    /\ inspection = Session("stopped", "closed")
    /\ snapshot_block = Block("error", "playwright fallback failed")
    /\ browser = "none" /\ launches = 0

====
